---------------------------- MODULE Spec2Model ----------------------------
(***************************************************************************)
(* Model of scripts/caddy-service-manager.py (CaddyServiceManager and its  *)
(* command line entry point).  Every command line invocation is one        *)
(* operating-system process; the processes share the file system under     *)
(* /opt/caddy (the active Caddyfile, the backup directory, the services     *)
(* directory) and the temporary directory.                                 *)
(*                                                                         *)
(* Strings are modelled as sequences of one-character strings, so that     *)
(* substring tests, suffix tests and splits are computed, not assumed.     *)
(***************************************************************************)
EXTENDS Integers, Sequences, FiniteSets, TLC

(***************************************************************************)
(* Bounds of the model.                                                    *)
(***************************************************************************)
MaxCycles == 2        \* command line invocations in one behaviour
MaxClock == 2         \* seconds of wall-clock time that can elapse
MaxEntries == 1       \* entries in one inventory response
MaxTokens == 2        \* name tokens in one hostname given to the classifier
MaxRuns == 2          \* discovery runs the scheduler starts
MaxRecords == 4       \* address records the inventory holds
MaxDescriptors == 2   \* descriptors in one list given to the renderer
MaxRenders == 2       \* render calls on one descriptor list

(***************************************************************************)
(* Processes.  Spec runs one invocation at a time (SeqProcs); SpecConc      *)
(* lets two invocations overlap (Procs).                                   *)
(***************************************************************************)
Procs == {"p1", "p2"}
SeqProcs == {"p1"}

(***************************************************************************)
(* String helpers (Python str operations used by the program).             *)
(***************************************************************************)
\* pat in s
Contains(pat, s) ==
    \E i \in 1..(Len(s) - Len(pat) + 1) : SubSeq(s, i, i + Len(pat) - 1) = pat

\* s.endswith(suf)
EndsWith(s, suf) ==
    /\ Len(suf) <= Len(s)
    /\ SubSeq(s, Len(s) - Len(suf) + 1, Len(s)) = suf

\* s.split(ch)[0]
SplitHead(s, ch) ==
    IF \E i \in 1..Len(s) : s[i] = ch
    THEN LET first == CHOOSE i \in 1..Len(s) :
                          /\ s[i] = ch
                          /\ \A j \in 1..(i - 1) : s[j] # ch
         IN  SubSeq(s, 1, first - 1)
    ELSE s

LowerChar(c) ==
    CASE c = "A" -> "a"
      [] c = "G" -> "g"
      [] c = "P" -> "p"
      [] c = "I" -> "i"
      [] OTHER -> c

\* s.lower()
Lower(s) == [i \in 1..Len(s) |-> LowerChar(s[i])]

(***************************************************************************)
(* Configuration read in __init__.                                         *)
(***************************************************************************)
domain == <<"d", "o", "o", "f", "u", "s", ".", "c", "o">>

\* the keys of self.service_templates
service_templates == {"web", "api", "secure"}

(***************************************************************************)
(* detect_services: the ordered hostname patterns and the first match.     *)
(***************************************************************************)
service_patterns ==
    << [pattern |-> <<"g","i","t","l","a","b">>, port |-> 80, type |-> "web", protocol |-> "http"],
       [pattern |-> <<"g","i","t">>, port |-> 80, type |-> "web", protocol |-> "http"],
       [pattern |-> <<"n","e","t","b","o","x">>, port |-> 8080, type |-> "web", protocol |-> "http"],
       [pattern |-> <<"i","p","a","m">>, port |-> 8080, type |-> "web", protocol |-> "http"],
       [pattern |-> <<"g","r","a","f","a","n","a">>, port |-> 3000, type |-> "monitoring", protocol |-> "http"],
       [pattern |-> <<"p","r","o","m","e","t","h","e","u","s">>, port |-> 9090, type |-> "monitoring", protocol |-> "http"],
       [pattern |-> <<"a","p","i">>, port |-> 8080, type |-> "api", protocol |-> "http"],
       [pattern |-> <<"d","o","c","s">>, port |-> 8000, type |-> "docs", protocol |-> "http"],
       [pattern |-> <<"a","d","m","i","n">>, port |-> 8080, type |-> "secure", protocol |-> "http"] >>

\* without the break: every matching rule adds a descriptor
detect_services_nobreak(hostname, ip, custom_fields) ==
    LET hostname_lower == Lower(hostname)
        hits == {i \in 1..Len(service_patterns) :
                    Contains(service_patterns[i].pattern, hostname_lower)}
        RECURSIVE Collect(_)
        Collect(i) ==
            IF i > Len(service_patterns) THEN << >>
            ELSE (IF i \in hits
                  THEN << [type |-> service_patterns[i].type,
                           port |-> service_patterns[i].port,
                           protocol |-> service_patterns[i].protocol] >>
                  ELSE << >>) \o Collect(i + 1)
    IN  IF hits # {} THEN Collect(1)
        ELSE << [type |-> "web", port |-> 80, protocol |-> "http"] >>

\* the default descriptor built with the port of the alternate web rule
detect_services_default8080(hostname, ip, custom_fields) ==
    LET hostname_lower == Lower(hostname)
        hits == {i \in 1..Len(service_patterns) :
                    Contains(service_patterns[i].pattern, hostname_lower)}
    IN  IF hits # {}
        THEN LET i == CHOOSE k \in hits : \A j \in hits : k <= j
             IN  << [type |-> service_patterns[i].type,
                     port |-> service_patterns[i].port,
                     protocol |-> service_patterns[i].protocol] >>
        ELSE << [type |-> "web", port |-> 8080, protocol |-> "http"] >>

detect_services(hostname, ip, custom_fields) ==
    LET hostname_lower == Lower(hostname)
        hits == {i \in 1..Len(service_patterns) :
                    Contains(service_patterns[i].pattern, hostname_lower)}
    IN  IF hits # {}
        THEN LET i == CHOOSE k \in hits : \A j \in hits : k <= j
             IN  << [type |-> service_patterns[i].type,
                     port |-> service_patterns[i].port,
                     protocol |-> service_patterns[i].protocol] >>
        ELSE << [type |-> "web", port |-> 80, protocol |-> "http"] >>

(***************************************************************************)
(* get_services_from_netbox: the services of one inventory response.       *)
(* A response is [kind, results]: kind "ok" is HTTP 200, "status" another  *)
(* status code, "exception" a request that raised.                         *)
(***************************************************************************)
ServiceOf(ip_data, det) ==
    [hostname |-> ip_data.dns_name,
     ip |-> SplitHead(ip_data.address, "/"),
     service_type |-> det.type,
     port |-> det.port,
     protocol |-> det.protocol]

RECURSIVE ServicesOfResults(_)
ServicesOfResults(results) ==
    IF results = << >> THEN << >>
    ELSE LET ip_data == Head(results)
             rest == ServicesOfResults(Tail(results))
         IN  IF ip_data.dns_name = << >>
             THEN rest
             ELSE LET detected == detect_services(ip_data.dns_name,
                                                  SplitHead(ip_data.address, "/"),
                                                  << >>)
                  IN  [i \in 1..Len(detected) |-> ServiceOf(ip_data, detected[i])] \o rest

get_services_from_netbox(response) ==
    IF response.kind = "ok" THEN ServicesOfResults(response.results) ELSE << >>

(***************************************************************************)
(* generate_service_config and generate_main_caddyfile.  A block is the    *)
(* template chosen together with the values substituted into it; the web   *)
(* template is the only one that uses {service}.                           *)
(***************************************************************************)
\* variant: the domain is appended to every hostname that does not end with it
generate_service_config_qualify_all(service) ==
    LET service_type == service.service_type
        template_key == IF Contains(<<"a","d","m","i","n">>, service.hostname)
                        THEN "secure" ELSE service_type
        template == IF template_key \in service_templates THEN template_key ELSE "web"
        hostname == IF ~EndsWith(service.hostname, <<".">> \o domain)
                    THEN service.hostname \o <<".">> \o domain
                    ELSE service.hostname
    IN  [template |-> template,
         hostname |-> hostname,
         ip |-> service.ip,
         port |-> service.port,
         service |-> IF template = "web" THEN SplitHead(service.hostname, ".") ELSE << >>]

generate_service_config(service) ==
    LET service_type == service.service_type
        template_key == IF Contains(<<"a","d","m","i","n">>, service.hostname)
                        THEN "secure" ELSE service_type
        template == IF template_key \in service_templates THEN template_key ELSE "web"
        hostname == IF /\ ~EndsWith(service.hostname, <<".">> \o domain)
                       /\ ~Contains(<<".">>, service.hostname)
                    THEN service.hostname \o <<".">> \o domain
                    ELSE service.hostname
    IN  [template |-> template,
         hostname |-> hostname,
         ip |-> service.ip,
         port |-> service.port,
         service |-> IF template = "web" THEN SplitHead(service.hostname, ".") ELSE << >>]

\* variant: the blocks are emitted last descriptor first
generate_main_caddyfile_reversed(services, now) ==
    [header |-> now,
     blocks |-> [i \in 1..Len(services) |->
                    generate_service_config(services[Len(services) + 1 - i])]]

generate_main_caddyfile(services, now) ==
    [header |-> now,
     blocks |-> [i \in 1..Len(services) |-> generate_service_config(services[i])]]


(***************************************************************************)
(* Files.  A file is << >> when it does not exist and <<text>> when it     *)
(* holds text; a text is [header, blocks].  The header of a generated text *)
(* is the time of its generation (datetime.now().isoformat(), microsecond  *)
(* resolution): <<second, invocation>>, so two renderings never carry the  *)
(* same header.  EmptyText is what a file holds after it was opened for    *)
(* writing and nothing was written.                                        *)
(***************************************************************************)
NoFile == << >>
EmptyText == [header |-> <<0, 0>>, blocks |-> << >>]

\* return "" of backup_current_config; backup names are the timestamps 1..MaxClock
NoBackup == 0

\* str.replace(a, b)
Replace(s, a, b) == [i \in 1..Len(s) |-> IF s[i] = a THEN b ELSE s[i]]

(***************************************************************************)
(* Inputs: what the inventory can answer, what the operator can add, and   *)
(* what the external caddy binary can do.                                  *)
(***************************************************************************)
InvEntries ==
    { [dns_name |-> <<"g","i","t">>, address |-> <<"7","/","8">>],
      [dns_name |-> << >>, address |-> <<"5","/","8">>] }

Responses ==
    { [kind |-> "ok", results |-> r] :
          r \in UNION { [1..n -> InvEntries] : n \in 0..MaxEntries } }
    \cup { [kind |-> k, results |-> << >>] : k \in {"status", "exception", "noanswer"} }

ManualServices ==
    { [hostname |-> <<"w","i","k","i">>, ip |-> <<"9">>, port |-> 8080,
       service_type |-> "api", protocol |-> "http"],
      [hostname |-> <<"g","i","t">>, ip |-> <<"7">>, port |-> 80,
       service_type |-> "web", protocol |-> "http"] }

\* the hand-written Caddyfile an operator may have installed before the first cycle
OperatorText ==
    [header |-> <<0, 0>>,
     blocks |-> << generate_service_config(
                      [hostname |-> <<"o","l","d">>, ip |-> <<"3">>,
                       service_type |-> "web", port |-> 80, protocol |-> "http"]) >>]

\* caddy validate: exit 0, exit non-zero, no answer within 30 s, binary cannot be
\* started, or the temporary file cannot be created
CheckerOutcomes == {"ok", "reject", "timeout", "nostart", "tmpfail"}

VARIABLES
    caddyfile,      \* /opt/caddy/Caddyfile
    backups,        \* /opt/caddy/backups: timestamp -> file
    serviceFiles,   \* /opt/caddy/services: set of [name, text]
    tempFiles,      \* temporary *.caddyfile files that exist
    clock,          \* wall-clock time in seconds
    cycles,         \* command line invocations started so far
    pc,             \* where each process is
    mode,           \* the command line option of the process
    inv,            \* the invocation number of the process
    manual,         \* the service given to --add
    services,       \* local: services
    new_config,     \* local: new_config
    backup_file,    \* local: backup_file
    status,         \* the return statement that ended the cycle
    exitCode,       \* exit status of the process, -1 while it runs
    preCaddyfile,   \* history: the Caddyfile when update_caddy_configuration began
    preBackups,     \* history: the backup directory at that moment
    preServiceFiles, \* history: the services directory when the invocation began
    log,            \* history: the stages executed in this cycle
    checker,        \* history: what the external checker did in this cycle
    validated,      \* history: the document handed to the validator
    written,        \* history: the document written over the Caddyfile
    attempts        \* history: copy-back attempts in this cycle

(***************************************************************************)
(* The classifier taken alone: one inventory entry, what detect_services   *)
(* returns for its name and what get_services_from_netbox makes of a       *)
(* response that holds just this entry.                                    *)
(***************************************************************************)
VARIABLES
    ip_data,        \* the inventory entry [dns_name, address]
    applied,        \* the functions applied so far: "none", "detect", "fetch"
    detected,       \* result of detect_services
    fetched,        \* result of get_services_from_netbox
    descriptors,    \* the descriptor list given to generate_main_caddyfile
    rendered        \* the documents it returned, one per call

classifierVars == <<ip_data, applied, detected, fetched, descriptors, rendered>>

(***************************************************************************)
(* The discovery agent (discovery-agent.py): one run_discovery at a time,  *)
(* started by the scheduler; the inventory and the name server keep their  *)
(* records from one run to the next.                                       *)
(***************************************************************************)
VARIABLES
    dpc,                \* where run_discovery stands
    runs,               \* runs started so far
    technitium_token,   \* whether TECHNITIUM_API_TOKEN is set
    net,                \* index in discovery_networks of the network in the loop
    discovered_hosts,   \* hosts of this network still to process
    report,             \* the report of this run
    netbox,             \* the inventory's ip-address records
    zone,               \* the name server's A records
    scanned,            \* history: what the scan of each network did in this run
    attempted,          \* history: addresses given to update_netbox_ip in this run
    failedUpserts,      \* history: addresses for which it returned False
    syncedHosts         \* history: addresses for which sync_to_dns returned True

agentVars == <<dpc, runs, technitium_token, net, discovered_hosts, report, netbox, zone,
               scanned, attempted, failedUpserts, syncedHosts>>

fsVars == <<caddyfile, backups, serviceFiles, tempFiles>>
locals == <<services, new_config, backup_file>>
hist == <<preCaddyfile, preBackups, preServiceFiles, log, checker, validated, written, attempts>>
managerVars == <<caddyfile, backups, serviceFiles, tempFiles, clock, cycles, pc, mode, inv,
                 manual, services, new_config, backup_file, status, exitCode,
                 preCaddyfile, preBackups, preServiceFiles, log, checker, validated, written, attempts>>
\* what the manager's actions leave alone
otherVars == <<classifierVars, agentVars>>
vars == <<managerVars, otherVars>>

NoService == [hostname |-> << >>, ip |-> << >>, port |-> 0, service_type |-> "web",
              protocol |-> "http"]

ManagerInit ==
    /\ caddyfile \in {NoFile, <<OperatorText>>}
    /\ backups = [t \in 1..MaxClock |-> NoFile]
    /\ serviceFiles = {}
    /\ tempFiles = {}
    /\ clock = 1
    /\ cycles = 0
    /\ pc = [p \in Procs |-> "idle"]
    /\ mode = [p \in Procs |-> "none"]
    /\ inv = [p \in Procs |-> 0]
    /\ manual = [p \in Procs |-> NoService]
    /\ services = [p \in Procs |-> << >>]
    /\ new_config = [p \in Procs |-> EmptyText]
    /\ backup_file = [p \in Procs |-> NoBackup]
    /\ status = [p \in Procs |-> "none"]
    /\ exitCode = [p \in Procs |-> -1]
    /\ preCaddyfile = [p \in Procs |-> NoFile]
    /\ preBackups = [p \in Procs |-> backups]
    /\ preServiceFiles = [p \in Procs |-> serviceFiles]
    /\ log = [p \in Procs |-> << >>]
    /\ checker = [p \in Procs |-> "none"]
    /\ validated = [p \in Procs |-> EmptyText]
    /\ written = [p \in Procs |-> EmptyText]
    /\ attempts = [p \in Procs |-> 0]

\* the classifier harness at rest
ClassifierOff ==
    /\ ip_data = [dns_name |-> << >>, address |-> << >>]
    /\ applied = "none"
    /\ detected = << >>
    /\ fetched = << >>
    /\ descriptors = << >>
    /\ rendered = << >>

discovery_networks == <<"10.203.1.0/24", "10.203.2.0/24">>

\* generate_network_report (lines 314-327), with the status set at line 379
NewReport == [status |-> "none", total_hosts |-> 0, active_hosts |-> 0,
              updated_hosts |-> 0, dns_synced |-> 0]

\* the early returns of lines 335-343
FailedReport == [NewReport EXCEPT !.status = "failed"]

AgentInit ==
    /\ dpc = "idle"
    /\ runs = 0
    /\ technitium_token \in BOOLEAN
    /\ net = 0
    /\ discovered_hosts = << >>
    /\ report = NewReport
    /\ netbox = {}
    /\ zone = {}
    /\ scanned = [n \in 1..Len(discovery_networks) |-> "none"]
    /\ attempted = {}
    /\ failedUpserts = {}
    /\ syncedHosts = {}

\* the agent at rest
AgentOff == AgentInit /\ technitium_token = FALSE

Init == ManagerInit /\ ClassifierOff /\ AgentOff

\* datetime.now() as the header prints it
Now(p) == <<clock, inv[p]>>

Terminated(p) == pc[p] \in {"done", "crashed"}

(***************************************************************************)
(* How a process ends: main() turns the boolean returned by the manager    *)
(* into the exit status (exit(0 if success else 1)); an exception nobody   *)
(* catches ends the interpreter with a traceback and exit status 1.        *)
(***************************************************************************)
Return(p, success, st) ==
    /\ pc' = [pc EXCEPT ![p] = "done"]
    /\ status' = [status EXCEPT ![p] = st]
    /\ exitCode' = [exitCode EXCEPT ![p] = IF success THEN 0 ELSE 1]

Raise(p, st) ==
    /\ pc' = [pc EXCEPT ![p] = "crashed"]
    /\ status' = [status EXCEPT ![p] = st]
    /\ exitCode' = [exitCode EXCEPT ![p] = 1]

Goto(p, label) ==
    /\ pc' = [pc EXCEPT ![p] = label]
    /\ UNCHANGED <<status, exitCode>>

Stage(p, name) == log' = [log EXCEPT ![p] = Append(@, name)]

(***************************************************************************)
(* main(): a new invocation of the command line.                           *)
(***************************************************************************)
Invoke(p, option, service) ==
    /\ pc[p] \in {"idle", "done", "crashed"}
    /\ cycles < MaxCycles
    /\ cycles' = cycles + 1
    /\ inv' = [inv EXCEPT ![p] = cycles + 1]
    /\ mode' = [mode EXCEPT ![p] = option]
    /\ manual' = [manual EXCEPT ![p] = service]
    /\ pc' = [pc EXCEPT ![p] = "main_" \o option]
    /\ status' = [status EXCEPT ![p] = "none"]
    /\ exitCode' = [exitCode EXCEPT ![p] = -1]
    /\ services' = [services EXCEPT ![p] = << >>]
    /\ new_config' = [new_config EXCEPT ![p] = EmptyText]
    /\ backup_file' = [backup_file EXCEPT ![p] = NoBackup]
    /\ preCaddyfile' = [preCaddyfile EXCEPT ![p] = caddyfile]
    /\ preBackups' = [preBackups EXCEPT ![p] = backups]
    /\ preServiceFiles' = [preServiceFiles EXCEPT ![p] = serviceFiles]
    /\ log' = [log EXCEPT ![p] = << >>]
    /\ checker' = [checker EXCEPT ![p] = "none"]
    /\ validated' = [validated EXCEPT ![p] = EmptyText]
    /\ written' = [written EXCEPT ![p] = EmptyText]
    /\ attempts' = [attempts EXCEPT ![p] = 0]
    /\ UNCHANGED <<fsVars, clock>>
    /\ UNCHANGED otherVars

\* --update
InvokeUpdate(p) == Invoke(p, "update", NoService)

\* --add HOSTNAME IP PORT TYPE
InvokeAdd(p) == \E service \in ManualServices : Invoke(p, "add", service)

\* --validate
InvokeValidate(p) == Invoke(p, "validate", NoService)

(***************************************************************************)
(* add_service_manually up to the call of update_caddy_configuration: the   *)
(* block of the one service is written to its own file in the services     *)
(* directory.  The write can raise (nothing catches it).                   *)
(***************************************************************************)
ServiceFileName(hostname) == Replace(hostname, ".", "_")

add_service_manually(p) ==
    /\ pc[p] = "main_add"
    /\ LET name == ServiceFileName(manual[p].hostname)
           service_config == generate_service_config(manual[p])
           others == {f \in serviceFiles : f.name # name}
       IN  \/ /\ serviceFiles' = others \cup {[name |-> name, text |-> service_config]}
              /\ Goto(p, "main_update")
           \/ /\ serviceFiles' = serviceFiles
              /\ Raise(p, "raised in add_service_manually")
    /\ UNCHANGED <<caddyfile, backups, tempFiles, clock, cycles, mode, inv, manual,
                   locals, hist>>
    /\ UNCHANGED otherVars

(***************************************************************************)
(* update_caddy_configuration, one action per stage.                       *)
(***************************************************************************)
\* lines 324-329: fetch (with classification of every entry); empty => return False
Fetch(p) ==
    /\ pc[p] = "main_update"
    /\ \E response \in Responses :
          LET found == get_services_from_netbox(response)
          IN  IF response.kind = "noanswer"
              THEN \* requests.get (lines 129-133) has no timeout: the call never returns
                   /\ services' = services
                   /\ Goto(p, "blocked")
              ELSE /\ services' = [services EXCEPT ![p] = found]
                   /\ IF found = << >>
                      THEN Return(p, FALSE, "noServices")
                      ELSE Goto(p, "render")
    /\ preCaddyfile' = [preCaddyfile EXCEPT ![p] = caddyfile]
    /\ preBackups' = [preBackups EXCEPT ![p] = backups]
    /\ preServiceFiles' = preServiceFiles
    /\ log' = [log EXCEPT ![p] = <<"fetch", "classify">>]
    /\ UNCHANGED <<fsVars, clock, cycles, mode, inv, manual, new_config, backup_file,
                   checker, validated, written, attempts>>
    /\ UNCHANGED otherVars

\* lines 331-332
Render(p) ==
    /\ pc[p] = "render"
    /\ new_config' = [new_config EXCEPT ![p] = generate_main_caddyfile(services[p], Now(p))]
    /\ Stage(p, "render")
    /\ Goto(p, "validate")
    /\ UNCHANGED <<fsVars, clock, cycles, mode, inv, manual, services, backup_file,
                   preCaddyfile, preBackups, preServiceFiles, checker, validated, written, attempts>>
    /\ UNCHANGED otherVars

(***************************************************************************)
(* validate_caddy_config.  The candidate is written to a temporary file    *)
(* created with delete=False; os.unlink runs only when subprocess.run      *)
(* returned, so an exception of subprocess.run (TimeoutExpired, the binary *)
(* missing) leaves the file behind.                                        *)
(***************************************************************************)
ValidateResultAnyExit(outcome) == outcome \in {"ok", "reject"}

\* the boolean returned (lines 287-296)
ValidateResult(outcome) == outcome = "ok"

\* the temporary files after the call (lines 272-285)
TempAfter(p, outcome) ==
    IF outcome \in {"timeout", "nostart"} THEN tempFiles \cup {inv[p]} ELSE tempFiles

validate_caddy_config(p, config_content, outcome) ==
    /\ tempFiles' = TempAfter(p, outcome)
    /\ checker' = [checker EXCEPT ![p] = outcome]
    /\ validated' = [validated EXCEPT ![p] = config_content]
    /\ UNCHANGED <<caddyfile, backups, serviceFiles>>

\* variant: the expired wait is not caught at line 294 and leaves the cycle
ValidateTimeoutRaises(p) ==
    /\ pc[p] = "validate"
    /\ \E outcome \in CheckerOutcomes :
          /\ validate_caddy_config(p, new_config[p], outcome)
          /\ IF outcome = "timeout"
             THEN Raise(p, "raised in validate_caddy_config")
             ELSE IF ValidateResult(outcome)
                  THEN Goto(p, "backup")
                  ELSE Return(p, FALSE, "validationFailed")
    /\ Stage(p, "validate")
    /\ UNCHANGED <<clock, cycles, mode, inv, manual, locals,
                   preCaddyfile, preBackups, preServiceFiles, written, attempts>>
    /\ UNCHANGED otherVars

\* lines 334-337
Validate(p) ==
    /\ pc[p] = "validate"
    /\ \E outcome \in CheckerOutcomes :
          /\ validate_caddy_config(p, new_config[p], outcome)
          /\ IF ValidateResult(outcome)
             THEN Goto(p, "backup")
             ELSE Return(p, FALSE, "validationFailed")
    /\ Stage(p, "validate")
    /\ UNCHANGED <<clock, cycles, mode, inv, manual, locals,
                   preCaddyfile, preBackups, preServiceFiles, written, attempts>>
    /\ UNCHANGED otherVars

(***************************************************************************)
(* backup_current_config (line 340 calls it outside the try block).        *)
(* shutil.copy2 either completes or raises, and then the backup may have   *)
(* been created empty.                                                     *)
(***************************************************************************)
backup_current_config_nocopy(p) ==
    /\ pc[p] = "backup"
    /\ backup_file' = [backup_file EXCEPT ![p] = IF caddyfile # NoFile THEN clock ELSE NoBackup]
    /\ backups' = backups
    /\ Goto(p, "write")
    /\ Stage(p, "backup")
    /\ UNCHANGED <<caddyfile, serviceFiles, tempFiles, clock, cycles, mode, inv, manual,
                   services, new_config, preCaddyfile, preBackups, preServiceFiles, checker, validated,
                   written, attempts>>
    /\ UNCHANGED otherVars

backup_current_config(p) ==
    /\ pc[p] = "backup"
    /\ LET timestamp == clock
       IN  IF caddyfile # NoFile
           THEN \/ /\ backups' = [backups EXCEPT ![timestamp] = caddyfile]
                   /\ backup_file' = [backup_file EXCEPT ![p] = timestamp]
                   /\ Goto(p, "write")
                \/ /\ backups' \in {backups, [backups EXCEPT ![timestamp] = <<EmptyText>>]}
                   /\ backup_file' = backup_file
                   /\ Raise(p, "raised in backup_current_config")
           ELSE /\ backups' = backups
                /\ backup_file' = [backup_file EXCEPT ![p] = NoBackup]
                /\ Goto(p, "write")
    /\ Stage(p, "backup")
    /\ UNCHANGED <<caddyfile, serviceFiles, tempFiles, clock, cycles, mode, inv, manual,
                   services, new_config, preCaddyfile, preBackups, preServiceFiles, checker, validated,
                   written, attempts>>
    /\ UNCHANGED otherVars

(***************************************************************************)
(* Lines 342-345: write_text opens the Caddyfile for writing (which        *)
(* empties it) and writes the candidate.  When it raises, the file is      *)
(* either untouched (the open failed) or left empty.                       *)
(***************************************************************************)
WriteConfigRendered(p) ==
    /\ pc[p] = "write"
    /\ caddyfile' = <<generate_main_caddyfile(services[p], Now(p))>>
    /\ written' = [written EXCEPT ![p] = generate_main_caddyfile(services[p], Now(p))]
    /\ Goto(p, "reload")
    /\ Stage(p, "write")
    /\ UNCHANGED <<backups, serviceFiles, tempFiles, clock, cycles, mode, inv, manual,
                   locals, preCaddyfile, preBackups, preServiceFiles, checker, validated, attempts>>
    /\ UNCHANGED otherVars

WriteConfig(p) ==
    /\ pc[p] = "write"
    /\ \/ /\ caddyfile' = <<new_config[p]>>
          /\ written' = [written EXCEPT ![p] = new_config[p]]
          /\ Goto(p, "reload")
       \/ /\ caddyfile' \in {caddyfile, <<EmptyText>>}
          /\ written' = written
          /\ Goto(p, "except")
    /\ Stage(p, "write")
    /\ UNCHANGED <<backups, serviceFiles, tempFiles, clock, cycles, mode, inv, manual,
                   locals, preCaddyfile, preBackups, preServiceFiles, checker, validated, attempts>>
    /\ UNCHANGED otherVars

(***************************************************************************)
(* Lines 347-356 with reload_caddy: caddy reload exits 0, or exits         *)
(* non-zero / raises (both make reload_caddy return False).                *)
(***************************************************************************)
Reload(p) ==
    /\ pc[p] = "reload"
    /\ \/ Return(p, TRUE, "applied")
       \/ Goto(p, "restore")
    /\ Stage(p, "reload")
    /\ UNCHANGED <<fsVars, clock, cycles, mode, inv, manual, locals,
                   preCaddyfile, preBackups, preServiceFiles, checker, validated, written, attempts>>
    /\ UNCHANGED otherVars

\* backup_file and Path(backup_file).exists()
BackupExists(p) ==
    /\ backup_file[p] # NoBackup
    /\ backups[backup_file[p]] # NoFile

(***************************************************************************)
(* Lines 357-362: the reload failed.  The backup is copied back when there *)
(* is one; otherwise the function returns False all the same.  copy2 can   *)
(* raise, which the except clause of line 364 catches.                     *)
(***************************************************************************)
Restore(p) ==
    /\ pc[p] = "restore"
    /\ IF BackupExists(p)
       THEN /\ attempts' = [attempts EXCEPT ![p] = @ + 1]
            /\ \/ /\ caddyfile' = backups[backup_file[p]]
                  /\ Return(p, FALSE, "activationFailedRolledBack")
               \/ /\ caddyfile' \in {caddyfile, <<EmptyText>>}
                  /\ Goto(p, "except")
       ELSE /\ attempts' = attempts
            /\ caddyfile' = caddyfile
            /\ Return(p, FALSE, "activationFailed")
    /\ Stage(p, "restore")
    /\ UNCHANGED <<backups, serviceFiles, tempFiles, clock, cycles, mode, inv, manual,
                   locals, preCaddyfile, preBackups, preServiceFiles, checker, validated, written>>
    /\ UNCHANGED otherVars

(***************************************************************************)
(* Lines 364-370: the except clause.  It copies the backup back when there *)
(* is one and returns False; a copy2 that raises here is caught by nobody. *)
(***************************************************************************)
ExceptRestore(p) ==
    /\ pc[p] = "except"
    /\ IF BackupExists(p)
       THEN /\ attempts' = [attempts EXCEPT ![p] = @ + 1]
            /\ \/ /\ caddyfile' = backups[backup_file[p]]
                  /\ Return(p, FALSE, "errorRestored")
               \/ /\ caddyfile' \in {caddyfile, <<EmptyText>>}
                  /\ Raise(p, "raised in update_caddy_configuration")
       ELSE /\ attempts' = attempts
            /\ caddyfile' = caddyfile
            /\ Return(p, FALSE, "error")
    /\ Stage(p, "except")
    /\ UNCHANGED <<backups, serviceFiles, tempFiles, clock, cycles, mode, inv, manual,
                   locals, preCaddyfile, preBackups, preServiceFiles, checker, validated, written>>
    /\ UNCHANGED otherVars

(***************************************************************************)
(* main(), --validate (lines 418-426): validates the Caddyfile on disk.    *)
(***************************************************************************)
MainValidate(p) ==
    /\ pc[p] = "main_validate"
    /\ IF caddyfile # NoFile
       THEN \E outcome \in CheckerOutcomes :
               /\ validate_caddy_config(p, Head(caddyfile), outcome)
               /\ Return(p, ValidateResult(outcome), "validated")
       ELSE /\ UNCHANGED <<fsVars, checker, validated>>
            /\ Return(p, FALSE, "notFound")
    /\ UNCHANGED <<clock, cycles, mode, inv, manual, locals,
                   preCaddyfile, preBackups, preServiceFiles, log, written, attempts>>
    /\ UNCHANGED otherVars

\* a second of wall-clock time passes
Tick ==
    /\ clock < MaxClock
    /\ clock' = clock + 1
    /\ UNCHANGED <<fsVars, cycles, pc, mode, inv, manual, locals, status, exitCode, hist>>
    /\ UNCHANGED otherVars

Step(p) ==
    \/ InvokeUpdate(p)
    \/ InvokeAdd(p)
    \/ InvokeValidate(p)
    \/ add_service_manually(p)
    \/ Fetch(p)
    \/ Render(p)
    \/ Validate(p)
    \/ backup_current_config(p)
    \/ WriteConfig(p)
    \/ Reload(p)
    \/ Restore(p)
    \/ ExceptRestore(p)
    \/ MainValidate(p)

\* one invocation at a time
Next == Tick \/ \E p \in SeqProcs : Step(p)

Spec == Init /\ [][Next]_vars

(***************************************************************************)
(* A shutdown request (Ctrl-C, SIGTERM) while an invocation runs.  main()  *)
(* installs no signal handler and KeyboardInterrupt is not an Exception,   *)
(* so neither the except clause of line 364 nor any other catches it: the  *)
(* interpreter ends where it stands.  Inside write_text or shutil.copy2    *)
(* the Caddyfile is left as it was or truncated; elsewhere the files stay  *)
(* as they are.                                                            *)
(***************************************************************************)
Interrupt(p) ==
    /\ pc[p] \notin {"idle", "done", "crashed"}
    /\ IF pc[p] = "write" \/ (pc[p] \in {"restore", "except"} /\ BackupExists(p))
       THEN caddyfile' \in {caddyfile, <<EmptyText>>}
       ELSE caddyfile' = caddyfile
    /\ Raise(p, "interrupted")
    /\ UNCHANGED <<backups, serviceFiles, tempFiles, clock, cycles, mode, inv, manual,
                   locals, hist>>
    /\ UNCHANGED otherVars

NextShutdown == Next \/ \E p \in SeqProcs : Interrupt(p)

SpecShutdown == Init /\ [][NextShutdown]_vars

\* invocations of two operators, or of cron and an operator, can overlap
NextConc == Tick \/ \E p \in Procs : Step(p)

SpecConc == Init /\ [][NextConc]_vars

(***************************************************************************)
(* The classifier taken alone.  Hostnames are built from the tokens the    *)
(* rules look for, some of them in upper case, and from filler text.       *)
(***************************************************************************)
NameTokens ==
    { <<"g","i","t","l","a","b">>, <<"g","i","t">>, <<"n","e","t","b","o","x">>,
      <<"i","p","a","m">>, <<"g","r","a","f","a","n","a">>,
      <<"p","r","o","m","e","t","h","e","u","s">>, <<"a","p","i">>,
      <<"d","o","c","s">>, <<"a","d","m","i","n">>,
      <<"A","P","I">>, <<"G","i","t">>, <<"A","d","m","i","n">>,
      <<"d","b">>, <<".">> }

RECURSIVE NamesOf(_)
NamesOf(n) ==
    IF n = 0 THEN { << >> }
    ELSE NamesOf(n - 1) \cup { h \o t : h \in NamesOf(n - 1), t \in NameTokens }

Hostnames == NamesOf(MaxTokens)

Addresses == { <<"7","/","8">>, <<"9">> }

InitClassify ==
    /\ ManagerInit
    /\ caddyfile = NoFile
    /\ ip_data \in [dns_name : Hostnames, address : Addresses]
    /\ applied = "none"
    /\ detected = << >>
    /\ fetched = << >>
    /\ descriptors = << >>
    /\ rendered = << >>
    /\ AgentOff

\* detect_services(hostname, ip_address, custom_fields) as line 151 calls it
ApplyDetect ==
    /\ applied = "none"
    /\ detected' = detect_services(ip_data.dns_name, SplitHead(ip_data.address, "/"), << >>)
    /\ applied' = "detect"
    /\ UNCHANGED <<ip_data, fetched, descriptors, rendered, managerVars, agentVars>>

\* get_services_from_netbox on an HTTP 200 response whose results are this entry
ApplyFetch ==
    /\ applied = "detect"
    /\ fetched' = get_services_from_netbox([kind |-> "ok", results |-> <<ip_data>>])
    /\ applied' = "fetch"
    /\ UNCHANGED <<ip_data, detected, descriptors, rendered, managerVars, agentVars>>

NextClassify == ApplyDetect \/ ApplyFetch

SpecClassify == InitClassify /\ [][NextClassify]_vars

(***************************************************************************)
(* The renderer taken alone: generate_main_caddyfile called MaxRenders     *)
(* times, at different moments, on one descriptor list.                    *)
(***************************************************************************)
RenderDescriptors ==
    { [hostname |-> <<"g","i","t">>, ip |-> <<"1">>, port |-> 80,
       service_type |-> "web", protocol |-> "http"],
      [hostname |-> <<"w","i","k","i",".","l","a","n">>, ip |-> <<"2">>, port |-> 8080,
       service_type |-> "api", protocol |-> "http"],
      [hostname |-> <<"g","i","t",".">> \o domain, ip |-> <<"3">>, port |-> 80,
       service_type |-> "web", protocol |-> "http"],
      [hostname |-> <<"a","d","m","i","n">>, ip |-> <<"4">>, port |-> 8080,
       service_type |-> "secure", protocol |-> "http"],
      [hostname |-> domain, ip |-> <<"5">>, port |-> 80,
       service_type |-> "web", protocol |-> "http"],
      [hostname |-> <<"n","a","s">>, ip |-> <<"6">>, port |-> 3000,
       service_type |-> "monitoring", protocol |-> "http"] }

DescriptorLists == UNION { [1..n -> RenderDescriptors] : n \in 0..MaxDescriptors }

InitRender ==
    /\ ManagerInit
    /\ caddyfile = NoFile
    /\ ip_data = [dns_name |-> << >>, address |-> << >>]
    /\ applied = "none"
    /\ detected = << >>
    /\ fetched = << >>
    /\ descriptors \in DescriptorLists
    /\ rendered = << >>
    /\ AgentOff

\* generate_main_caddyfile(services) at some second, as line 332 calls it
ApplyRender ==
    /\ Len(rendered) < MaxRenders
    /\ \E second \in 1..MaxClock :
          rendered' = Append(rendered,
                             generate_main_caddyfile(descriptors, <<second, Len(rendered) + 1>>))
    /\ UNCHANGED <<ip_data, applied, detected, fetched, descriptors, managerVars, agentVars>>

NextRender == ApplyRender

SpecRender == InitRender /\ [][NextRender]_vars

(***************************************************************************)
(* The discovery agent.                                                    *)
(***************************************************************************)
\* the hosts that answer the ping scan of a network, with the name their PTR
\* record gives (<< >>: no PTR record, hostname stays None)
Population(network) ==
    IF network = discovery_networks[1]
    THEN << [ip |-> "10.203.1.5", hostname |-> <<"n", "a", "s", ".", "l", "a", "n">>],
            [ip |-> "10.203.1.9", hostname |-> << >>] >>
    ELSE << [ip |-> "10.203.2.7", hostname |-> <<"p", "i">>] >>

\* what an HTTP call does: answers 2xx, answers another status, raises
HttpOutcomes == {"ok", "status", "exception"}

\* the record NetBox creates for a POST (lines 240-251, 262-267)
NewRecord(store, host) ==
    [id |-> Cardinality(store) + 1, address |-> host.ip, dns_name |-> host.hostname]

(***************************************************************************)
(* update_netbox_ip (lines 228-280).  lookup is the answer to the GET by   *)
(* address, write the answer to the PATCH or POST that follows.  A GET     *)
(* that does not answer 200, or that finds nothing, leads to the POST      *)
(* branch; a PATCH with the same fields leaves the record as it is.        *)
(***************************************************************************)
update_netbox_ip(store, host, lookup, write) ==
    LET existing == {r \in store : r.address = host.ip}
    IN  IF lookup = "exception"
        THEN [store |-> store, result |-> FALSE]
        ELSE IF lookup = "ok" /\ existing # {}
             THEN [store |-> store, result |-> write = "ok"]
             ELSE IF write = "ok"
                  THEN [store |-> store \cup {NewRecord(store, host)}, result |-> TRUE]
                  ELSE [store |-> store, result |-> FALSE]

(***************************************************************************)
(* sync_to_dns (lines 282-312): records/add for <first label>.doofus.co.   *)
(* The name server keeps a set of records: adding one it already holds     *)
(* leaves the zone as it is.                                               *)
(***************************************************************************)
sync_to_dns(records, host, answer) ==
    IF ~technitium_token \/ host.hostname = << >>
    THEN [zone |-> records, result |-> FALSE]
    ELSE IF answer = "ok"
         THEN [zone |-> records \cup
                        {[domain |-> SplitHead(host.hostname, ".") \o <<".">> \o domain,
                          ipAddress |-> host.ip]},
               result |-> TRUE]
         ELSE [zone |-> records, result |-> FALSE]

\* lines 401-421: the initial run and the scheduled ones, one after the other
StartDiscovery ==
    /\ dpc \in {"idle", "done"}
    /\ runs < MaxRuns
    /\ runs' = runs + 1
    /\ dpc' = "connect"
    /\ net' = 0
    /\ discovered_hosts' = << >>
    /\ report' = NewReport
    /\ scanned' = [n \in 1..Len(discovery_networks) |-> "none"]
    /\ attempted' = {}
    /\ failedUpserts' = {}
    /\ syncedHosts' = {}
    /\ UNCHANGED <<technitium_token, netbox, zone>>
    /\ UNCHANGED <<managerVars, classifierVars>>

\* lines 334-337 with test_netbox_connection (lines 54-66)
TestConnection ==
    /\ dpc = "connect"
    /\ \/ /\ dpc' = "site"
          /\ report' = report
       \/ /\ dpc' = "done"
          /\ report' = FailedReport
    /\ UNCHANGED <<runs, technitium_token, net, discovered_hosts, netbox, zone,
                   scanned, attempted, failedUpserts, syncedHosts>>
    /\ UNCHANGED <<managerVars, classifierVars>>

\* lines 339-345 with get_or_create_site (lines 68-104)
GetSite ==
    /\ dpc = "site"
    /\ \/ /\ dpc' = "scan"
          /\ net' = 1
          /\ report' = NewReport
       \/ /\ dpc' = "done"
          /\ net' = net
          /\ report' = FailedReport
    /\ UNCHANGED <<runs, technitium_token, discovered_hosts, netbox, zone,
                   scanned, attempted, failedUpserts, syncedHosts>>
    /\ UNCHANGED <<managerVars, classifierVars>>

\* the for loop of line 347 moves to the next network, or ends
NextNetwork ==
    IF net < Len(discovery_networks)
    THEN dpc' = "scan" /\ net' = net + 1
    ELSE dpc' = "report" /\ net' = net

\* variant: a failed scan ends the whole run
ScanNetworkAbort ==
    /\ dpc = "scan"
    /\ \E outcome \in {"up", "empty", "failed"} :
          /\ scanned' = [scanned EXCEPT ![net] = outcome]
          /\ discovered_hosts' =
                IF outcome = "up" THEN Population(discovery_networks[net]) ELSE << >>
          /\ IF outcome = "up"
             THEN dpc' = "upsert" /\ net' = net /\ report' = report
             ELSE IF outcome = "failed"
                  THEN dpc' = "done" /\ net' = net /\ report' = FailedReport
                  ELSE NextNetwork /\ report' = report
    /\ UNCHANGED <<runs, technitium_token, netbox, zone, attempted, failedUpserts, syncedHosts>>
    /\ UNCHANGED <<managerVars, classifierVars>>

(***************************************************************************)
(* Lines 347-356: get_or_create_prefix (its result is not used) and        *)
(* perform_network_scan (lines 145-195), which returns the hosts that are  *)
(* up, possibly none, or [] when the scan raised.                          *)
(***************************************************************************)
ScanNetwork ==
    /\ dpc = "scan"
    /\ \E outcome \in {"up", "empty", "failed"} :
          /\ scanned' = [scanned EXCEPT ![net] = outcome]
          /\ discovered_hosts' =
                IF outcome = "up" THEN Population(discovery_networks[net]) ELSE << >>
          /\ IF outcome = "up"
             THEN dpc' = "upsert" /\ net' = net
             ELSE NextNetwork
    /\ report' = report
    /\ UNCHANGED <<runs, technitium_token, netbox, zone, attempted, failedUpserts, syncedHosts>>
    /\ UNCHANGED <<managerVars, classifierVars>>

\* variant: a failed upsert ends the whole run
UpsertHostAbort ==
    /\ dpc = "upsert"
    /\ LET host == Head(discovered_hosts)
       IN  \E lookup \in HttpOutcomes \cup {"noanswer"}, write \in HttpOutcomes :
              LET r == update_netbox_ip(netbox, host, lookup, write)
              IN  /\ attempted' = attempted \cup {host.ip}
                  /\ IF lookup = "noanswer"
                     THEN /\ dpc' = "blocked"
                          /\ netbox' = netbox
                          /\ report' = [report EXCEPT !.total_hosts = @ + 1]
                          /\ failedUpserts' = failedUpserts
                     ELSE /\ Cardinality(r.store) <= MaxRecords
                          /\ netbox' = r.store
                          /\ report' = IF r.result
                                       THEN [report EXCEPT !.total_hosts = @ + 1,
                                                           !.updated_hosts = @ + 1]
                                       ELSE FailedReport
                          /\ failedUpserts' = IF r.result THEN failedUpserts
                                              ELSE failedUpserts \cup {host.ip}
                          /\ dpc' = IF r.result THEN "dns" ELSE "done"
    /\ UNCHANGED <<runs, technitium_token, net, discovered_hosts, zone, scanned, syncedHosts>>
    /\ UNCHANGED <<managerVars, classifierVars>>

(***************************************************************************)
(* Lines 358-368 for the next host: count it, upsert it into the           *)
(* inventory and count the success.  (perform_service_scan, lines 361-364, *)
(* catches every exception and changes only host['services'] and the       *)
(* services_discovered counter.)  The requests of update_netbox_ip carry   *)
(* no timeout: a GET that is never answered does not return.               *)
(***************************************************************************)
UpsertHost ==
    /\ dpc = "upsert"
    /\ LET host == Head(discovered_hosts)
       IN  \E lookup \in HttpOutcomes \cup {"noanswer"}, write \in HttpOutcomes :
              LET r == update_netbox_ip(netbox, host, lookup, write)
              IN  /\ attempted' = attempted \cup {host.ip}
                  /\ IF lookup = "noanswer"
                     THEN /\ dpc' = "blocked"
                          /\ netbox' = netbox
                          /\ report' = [report EXCEPT !.total_hosts = @ + 1]
                          /\ failedUpserts' = failedUpserts
                     ELSE /\ Cardinality(r.store) <= MaxRecords
                          /\ netbox' = r.store
                          /\ report' = [report EXCEPT
                                           !.total_hosts = @ + 1,
                                           !.updated_hosts = IF r.result THEN @ + 1 ELSE @]
                          /\ failedUpserts' = IF r.result THEN failedUpserts
                                              ELSE failedUpserts \cup {host.ip}
                          /\ dpc' = "dns"
    /\ UNCHANGED <<runs, technitium_token, net, discovered_hosts, zone, scanned, syncedHosts>>
    /\ UNCHANGED <<managerVars, classifierVars>>

\* variant: dns_synced counts every host, synced or not
SyncHostCountsAll ==
    /\ dpc = "dns"
    /\ LET host == Head(discovered_hosts)
       IN  \E answer \in HttpOutcomes :
              LET r == sync_to_dns(zone, host, answer)
              IN  /\ zone' = r.zone
                  /\ syncedHosts' = IF r.result THEN syncedHosts \cup {host.ip}
                                    ELSE syncedHosts
                  /\ report' = [report EXCEPT
                                   !.dns_synced = @ + 1,
                                   !.active_hosts = @ + 1]
    /\ discovered_hosts' = Tail(discovered_hosts)
    /\ IF Tail(discovered_hosts) # << >>
       THEN dpc' = "upsert" /\ net' = net
       ELSE NextNetwork
    /\ UNCHANGED <<runs, technitium_token, netbox, scanned, attempted, failedUpserts>>
    /\ UNCHANGED <<managerVars, classifierVars>>

\* lines 370-374: the name-server upsert of the same host, then the next host
SyncHost ==
    /\ dpc = "dns"
    /\ LET host == Head(discovered_hosts)
       IN  \E answer \in HttpOutcomes :
              LET r == sync_to_dns(zone, host, answer)
              IN  /\ zone' = r.zone
                  /\ syncedHosts' = IF r.result THEN syncedHosts \cup {host.ip}
                                    ELSE syncedHosts
                  /\ report' = [report EXCEPT
                                   !.dns_synced = IF r.result THEN @ + 1 ELSE @,
                                   !.active_hosts = @ + 1]
    /\ discovered_hosts' = Tail(discovered_hosts)
    /\ IF Tail(discovered_hosts) # << >>
       THEN dpc' = "upsert" /\ net' = net
       ELSE NextNetwork
    /\ UNCHANGED <<runs, technitium_token, netbox, scanned, attempted, failedUpserts>>
    /\ UNCHANGED <<managerVars, classifierVars>>

\* lines 376-384
Complete ==
    /\ dpc = "report"
    /\ report' = [report EXCEPT !.status = "completed"]
    /\ dpc' = "done"
    /\ UNCHANGED <<runs, technitium_token, net, discovered_hosts, netbox, zone,
                   scanned, attempted, failedUpserts, syncedHosts>>
    /\ UNCHANGED <<managerVars, classifierVars>>

InitDiscovery == ManagerInit /\ caddyfile = NoFile /\ ClassifierOff /\ AgentInit

NextDiscovery ==
    \/ StartDiscovery
    \/ TestConnection
    \/ GetSite
    \/ ScanNetwork
    \/ UpsertHost
    \/ SyncHost
    \/ Complete

SpecDiscovery == InitDiscovery /\ [][NextDiscovery]_vars

(***************************************************************************)
(* Properties.                                                             *)
(***************************************************************************)
InLog(p, name) == \E i \in 1..Len(log[p]) : log[p][i] = name

IsCycle(p) == mode[p] \in {"update", "add"}

\* the cycle reached the reload and the reload did not succeed
ReloadFailed(p) == IsCycle(p) /\ InLog(p, "reload") /\ status[p] # "applied"

\* C1: in a cycle whose candidate the validator did not accept, the Caddyfile and
\* the backup directory end as they were when the cycle began, and no backup,
\* write, reload or copy-back stage ran.
C1_ValidationGate ==
    \A p \in Procs :
        (IsCycle(p) /\ Terminated(p) /\ checker[p] \in CheckerOutcomes \ {"ok"})
            => /\ caddyfile = preCaddyfile[p]
               /\ backups = preBackups[p]
               /\ \A i \in 1..Len(log[p]) :
                     log[p][i] \notin {"backup", "write", "reload", "restore", "except"}

C1_Witness ==
    \E p \in Procs :
        /\ mode[p] = "update" /\ pc[p] = "done"
        /\ checker[p] = "reject"
        /\ status[p] = "validationFailed"
        /\ preCaddyfile[p] # NoFile

\* C2 (as claimed): whenever the candidate was written and the reload failed, the
\* Caddyfile after the cycle equals the Caddyfile before it and the cycle ends as
\* activationFailedRolledBack, whatever the Caddyfile was before (also absent).
C2_RollbackOnActivationFailure ==
    \A p \in Procs :
        (Terminated(p) /\ ReloadFailed(p))
            => /\ caddyfile = preCaddyfile[p]
               /\ status[p] = "activationFailedRolledBack"

\* C3 (as claimed): once the write stage of a cycle has begun, a complete backup
\* copy of the Caddyfile of before the cycle exists under the cycle's backup
\* name; and a cycle whose backup raised never writes the Caddyfile.
C3_BackupBeforeEveryWrite ==
    \A p \in Procs :
        /\ (IsCycle(p) /\ InLog(p, "write"))
              => /\ BackupExists(p)
                 /\ backups[backup_file[p]] = preCaddyfile[p]
        /\ status[p] = "raised in backup_current_config"
              => ~InLog(p, "write") /\ caddyfile = preCaddyfile[p]

\* C3 (amended): the same for every cycle that found a Caddyfile to back up; a
\* cycle that found none writes without a backup (backup_file is "").
C3_BackupBeforeWrite ==
    \A p \in Procs :
        /\ (IsCycle(p) /\ InLog(p, "write"))
              => IF preCaddyfile[p] # NoFile
                 THEN /\ BackupExists(p)
                      /\ backups[backup_file[p]] = preCaddyfile[p]
                 ELSE backup_file[p] = NoBackup
        /\ status[p] = "raised in backup_current_config"
              => ~InLog(p, "write") /\ caddyfile = preCaddyfile[p]

C3_Witness ==
    \E p \in Procs :
        /\ IsCycle(p) /\ InLog(p, "write")
        /\ preCaddyfile[p] # NoFile
        /\ caddyfile = <<new_config[p]>>
        /\ caddyfile # preCaddyfile[p]

\* C4 (as claimed): at most one process is between the start of its backup and the
\* end of its reload or copy-back.
Applying(p) == pc[p] \in {"backup", "write", "reload", "restore", "except"}

C4_CyclesSerialized ==
    \A p, q \in Procs : (Applying(p) /\ Applying(q)) => p = q

\* C5: the stages of a cycle run in the order fetch, classify, render, validate,
\* backup, write, reload; the write stage begins only after the validator accepted
\* the very document that is written, and the reload begins only after that
\* document was written completely.
StageOrder == <<"fetch", "classify", "render", "validate", "backup", "write", "reload">>

C5_StagesInOrder ==
    \A p \in Procs :
        IsCycle(p) =>
            /\ \A i \in 1..Len(log[p]) :
                  (\E k \in 1..Len(StageOrder) : StageOrder[k] = log[p][i])
                      => (i <= Len(StageOrder) /\ log[p][i] = StageOrder[i])
            /\ InLog(p, "write") => (checker[p] = "ok" /\ validated[p] = new_config[p])
            /\ InLog(p, "reload") => (written[p] = validated[p] /\ checker[p] = "ok")

C5_Witness ==
    \E p \in Procs :
        /\ mode[p] = "update" /\ pc[p] = "done" /\ status[p] = "applied"
        /\ log[p] = StageOrder
        /\ caddyfile = <<validated[p]>>

\* C6 (as claimed): when --add ends with success, the Caddyfile holds the block of
\* the service that was added.
C6_ManualServiceInActiveConfig ==
    \A p \in Procs :
        (mode[p] = "add" /\ pc[p] = "done" /\ exitCode[p] = 0)
            => /\ caddyfile # NoFile
               /\ \E i \in 1..Len(Head(caddyfile).blocks) :
                     Head(caddyfile).blocks[i] = generate_service_config(manual[p])

\* C7 (as claimed): a cycle whose reload failed and that ends with a Caddyfile other
\* than the one of before the cycle (the copy-back was impossible) does not end
\* with an ordinary return, and made at most two copy-back attempts.
C7_FailedRollbackIsFatal ==
    \A p \in Procs :
        (Terminated(p) /\ ReloadFailed(p) /\ caddyfile # preCaddyfile[p])
            => /\ pc[p] = "crashed"
               /\ attempts[p] <= 2

\* C8 (as claimed): no failure inside update_caddy_configuration leaves it as an
\* exception; every cycle ends with a returned result.
C8_NoUncaughtFault ==
    \A p \in Procs :
        status[p] \notin {"raised in backup_current_config",
                          "raised in update_caddy_configuration"}

\* C9 (as claimed): a cycle that fetched no services ends as a non-error (exit
\* status 0) and leaves the Caddyfile and the backup directory as they were.
C9_NoServicesIsNotAnError ==
    \A p \in Procs :
        (pc[p] = "done" /\ status[p] = "noServices")
            => /\ exitCode[p] = 0
               /\ caddyfile = preCaddyfile[p]
               /\ backups = preBackups[p]

\* C10 (as claimed): once validate_caddy_config has returned, the temporary file
\* that held the candidate is gone, whatever the checker did; and the Caddyfile
\* is the one of before the call.
C10_TempFileRemoved ==
    /\ tempFiles = {}
    /\ \A p \in Procs :
          (pc[p] = "done" /\ status[p] \in {"validationFailed", "validated"})
              => caddyfile = preCaddyfile[p]

\* C11: when the external checker does not answer within the 30 s wait,
\* validate_caddy_config returns False instead of raising: the cycle has
\* ended as validationFailed (not crashed) with the active configuration,
\* the backups untouched and nothing written.
C11_TimeoutIsValidationFailure ==
    \A p \in Procs :
        (IsCycle(p) /\ checker[p] = "timeout") =>
            /\ pc[p] = "done"
            /\ status[p] = "validationFailed"
            /\ caddyfile = preCaddyfile[p]
            /\ backups = preBackups[p]
            /\ ~InLog(p, "write")

\* a cycle over an existing Caddyfile whose checker timed out
C11_Witness ==
    \E p \in Procs :
        /\ IsCycle(p)
        /\ checker[p] = "timeout"
        /\ pc[p] = "done"
        /\ preCaddyfile[p] # NoFile

\* C12 (as claimed): a shutdown request is honoured only before the write of
\* the candidate has begun or after the rollback has completed, so an
\* invocation ended by a shutdown leaves the Caddyfile exactly as the cycle
\* found it: never half-written, never written but neither activated nor
\* rolled back.
C12_ShutdownOutsideWriteActivate ==
    \A p \in Procs :
        (IsCycle(p) /\ status[p] = "interrupted" /\ InLog(p, "fetch")) =>
            caddyfile = preCaddyfile[p]

\* C13 (as claimed): every external call of a cycle is bounded by a timeout, so
\* no invocation is ever left waiting on a collaborator that does not answer:
\* no invocation is ever inside a call ("blocked") that has no step to leave it.
C13_EveryCallBounded ==
    \A p \in Procs : pc[p] # "blocked"

\* the addresses of the hosts that the scans of this run found up
HostsFound ==
    UNION { { Population(discovery_networks[n])[i].ip :
                  i \in 1..Len(Population(discovery_networks[n])) } :
            n \in {m \in 1..Len(discovery_networks) : scanned[m] = "up"} }

\* C14: a discovery run in which the inventory upsert of exactly one host
\* failed has still called the upsert for every host found, has ended with
\* status completed, and its report shows exactly one host counted but not
\* updated (total_hosts - updated_hosts = 1).
C14_OneFailedUpsertIsPartial ==
    (dpc = "done" /\ Cardinality(failedUpserts) = 1) =>
        /\ report.status = "completed"
        /\ attempted = HostsFound
        /\ \A n \in 1..Len(discovery_networks) : scanned[n] # "none"
        /\ report.total_hosts = Cardinality(HostsFound)
        /\ report.total_hosts - report.updated_hosts = 1

\* a finished run over three hosts whose first host could not be upserted
C14_Witness ==
    /\ dpc = "done"
    /\ failedUpserts = {"10.203.1.5"}
    /\ attempted = {"10.203.1.5", "10.203.1.9", "10.203.2.7"}
    /\ report.total_hosts = 3
    /\ report.updated_hosts = 2

\* C15: a run in which the scan of one network failed has still scanned every
\* other configured network and called the upsert for each host found there,
\* and has ended with status completed.
C15_ScanFailureSkipsOneNetwork ==
    (dpc = "done" /\ \E n \in 1..Len(discovery_networks) : scanned[n] = "failed") =>
        /\ report.status = "completed"
        /\ \A n \in 1..Len(discovery_networks) : scanned[n] # "none"
        /\ attempted = HostsFound

\* a finished run whose first network could not be scanned and whose second
\* network's host was upserted
C15_Witness ==
    /\ dpc = "done"
    /\ scanned[1] = "failed"
    /\ scanned[2] = "up"
    /\ attempted = {"10.203.2.7"}
    /\ report.updated_hosts = 1

\* C16 (as claimed): however often the upserts are repeated, the inventory
\* holds at most one record per address and the name server at most one
\* record per fully-qualified name.
C16_UpsertIdempotent ==
    /\ \A r1, r2 \in netbox : r1.address = r2.address => r1 = r2
    /\ \A z1, z2 \in zone : z1.domain = z2.domain => z1 = z2

\* the rules whose token is in the hostname, compared without regard to case
Matching(hostname) ==
    {i \in 1..Len(service_patterns) : Contains(service_patterns[i].pattern, Lower(hostname))}

\* C17: for a hostname that holds the tokens of two or more rules, detect_services
\* returns exactly one descriptor, and its type and port are those of the matching
\* rule declared first.
C17_FirstMatchWins ==
    (applied # "none" /\ Cardinality(Matching(ip_data.dns_name)) >= 2)
        => /\ Len(detected) = 1
           /\ \A i \in Matching(ip_data.dns_name) :
                 (\A j \in Matching(ip_data.dns_name) : i <= j)
                     => /\ detected[1].type = service_patterns[i].type
                        /\ detected[1].port = service_patterns[i].port

C17_Witness ==
    /\ applied = "detect"
    /\ ip_data.dns_name # Lower(ip_data.dns_name)
    /\ \E i, j \in Matching(ip_data.dns_name) :
          /\ i < j
          /\ service_patterns[i].type # service_patterns[j].type
          /\ detected[1].type = service_patterns[i].type

\* C18 (as claimed): for a hostname that holds "admin", detect_services returns the
\* secure type, and the block rendered for it uses the secure template.
C18_AdminIsSecure ==
    (applied = "fetch" /\ Contains(<<"a","d","m","i","n">>, ip_data.dns_name))
        => /\ Len(detected) = 1
           /\ detected[1].type = "secure"
           /\ \A i \in 1..Len(fetched) :
                 /\ fetched[i].service_type = "secure"
                 /\ generate_service_config(fetched[i]).template = "secure"

\* C19: for a hostname that holds none of the tokens, detect_services returns
\* exactly one descriptor, of type web on port 80.
C19_DefaultDescriptor ==
    (applied # "none" /\ Matching(ip_data.dns_name) = {})
        => /\ Len(detected) = 1
           /\ detected[1].type = "web"
           /\ detected[1].port = 80

C19_Witness ==
    /\ applied = "detect"
    /\ Matching(ip_data.dns_name) = {}
    /\ ip_data.dns_name # << >>
    /\ detected = << [type |-> "web", port |-> 80, protocol |-> "http"] >>

\* C20 (as claimed): an inventory entry without a hostname still yields one default
\* descriptor (web, port 80), with the address as its hostname.
C20_NamelessEntryGetsDefault ==
    (applied = "fetch" /\ ip_data.dns_name = << >>)
        => /\ Len(fetched) = 1
           /\ fetched[1].service_type = "web"
           /\ fetched[1].port = 80
           /\ fetched[1].hostname = SplitHead(ip_data.address, "/")

\* C21 (as claimed): when the validator rejects the candidate during
\* add_service_manually, nothing persisted has changed: the Caddyfile, the
\* backup directory and the per-service files are as they were before the call.
C21_RejectedAddChangesNothing ==
    \A p \in Procs :
        (mode[p] = "add" /\ pc[p] = "done" /\ status[p] = "validationFailed") =>
            /\ caddyfile = preCaddyfile[p]
            /\ backups = preBackups[p]
            /\ serviceFiles = preServiceFiles[p]

\* the hostname holds a dot
HasDot(h) == \E i \in 1..Len(h) : h[i] = "."

\* the hostname is some prefix followed by ".<domain>"
HasDomainSuffix(h) == \E k \in 0..Len(h) : h = SubSeq(h, 1, k) \o <<".">> \o domain

\* C22: the hostname of a rendered block is the descriptor's hostname with
\* ".<domain>" appended if and only if the descriptor's hostname holds no dot
\* and does not already end with ".<domain>"; otherwise it is the descriptor's
\* hostname unchanged.
C22_QualifyIffBare ==
    \A k \in 1..Len(rendered) :
        \A i \in 1..Len(descriptors) :
            LET h == descriptors[i].hostname
            IN  rendered[k].blocks[i].hostname =
                    IF ~HasDot(h) /\ ~HasDomainSuffix(h)
                    THEN h \o <<".">> \o domain
                    ELSE h

\* a document with one block whose bare hostname was qualified and one block
\* whose dotted hostname outside the domain was kept
C22_Witness ==
    \E k \in 1..Len(rendered) :
        \E i, j \in 1..Len(descriptors) :
            /\ ~HasDot(descriptors[i].hostname)
            /\ rendered[k].blocks[i].hostname = descriptors[i].hostname \o <<".">> \o domain
            /\ HasDot(descriptors[j].hostname)
            /\ ~HasDomainSuffix(descriptors[j].hostname)
            /\ rendered[k].blocks[j].hostname = descriptors[j].hostname

\* C23: every rendered document holds exactly one block per descriptor, block
\* i being the block of descriptor i, and all render calls on the same list
\* return the same block sequence (the header aside).
C23_RenderDeterministicInOrder ==
    \A k \in 1..Len(rendered) :
        /\ Len(rendered[k].blocks) = Len(descriptors)
        /\ \A i \in 1..Len(descriptors) :
              /\ rendered[k].blocks[i].ip = descriptors[i].ip
              /\ rendered[k].blocks[i].port = descriptors[i].port
        /\ \A k2 \in 1..Len(rendered) : rendered[k2].blocks = rendered[k].blocks

\* two render calls at different moments on a list of two different descriptors
C23_Witness ==
    /\ Len(rendered) = 2
    /\ Len(descriptors) = 2
    /\ descriptors[1] # descriptors[2]
    /\ rendered[1].header # rendered[2].header
    /\ rendered[1].header[1] # rendered[2].header[1]

\* the write of the candidate raised: the except clause ran without a reload
WriteFailed(p) == InLog(p, "write") /\ InLog(p, "except") /\ ~InLog(p, "reload")

\* C24 (as claimed): a cycle whose write over the Caddyfile raised part-way
\* ends with the Caddyfile of before the cycle, also when there was none.
C24_FailedWriteRestored ==
    \A p \in Procs :
        (IsCycle(p) /\ Terminated(p) /\ WriteFailed(p)) => caddyfile = preCaddyfile[p]

\* C25 (as claimed): a completed backup copy is retained as it is: no later
\* backup replaces or alters it (backup names are distinct per cycle), so the
\* content every overwrite replaced stays available.
C25_BackupsRetained ==
    [][\A t \in 1..MaxClock :
           backups[t] \notin {NoFile, <<EmptyText>>} => backups'[t] = backups[t]]_vars

\* C26: throughout a discovery run active_hosts, updated_hosts and dns_synced
\* never exceed total_hosts; when the run has completed, active_hosts equals
\* total_hosts equals the number of hosts the scans returned, updated_hosts
\* is the number of hosts whose inventory upsert succeeded and dns_synced the
\* number whose DNS upsert succeeded, so total_hosts - updated_hosts is the
\* number of failed inventory upserts.
C26_ReportCounters ==
    /\ report.active_hosts <= report.total_hosts
    /\ report.updated_hosts <= report.total_hosts
    /\ report.dns_synced <= report.total_hosts
    /\ (dpc = "done" /\ report.status = "completed") =>
          /\ report.active_hosts = report.total_hosts
          /\ report.total_hosts = Cardinality(HostsFound)
          /\ report.updated_hosts = Cardinality(attempted \ failedUpserts)
          /\ report.dns_synced = Cardinality(syncedHosts)
          /\ report.total_hosts - report.updated_hosts = Cardinality(failedUpserts)

\* a completed run over three hosts: one upsert failed, one host was synced
\* to DNS, two were not
C26_Witness ==
    /\ dpc = "done"
    /\ report.status = "completed"
    /\ report.total_hosts = 3
    /\ report.updated_hosts = 2
    /\ report.dns_synced = 1
    /\ Cardinality(failedUpserts) = 1

=============================================================================
